---- MODULE Spec2Model ----
(***************************************************************************)
(* Model of src/t2c/convert.py: the module-graph rewriter (convert) and    *)
(* the quantizer binder (assign_quantizer) of Vanilla4Compress, ViTV4C and *)
(* BERT4Compress.                                                          *)
(*                                                                         *)
(* The module graph is a heap of node objects addressed by identity        *)
(* (index in the sequence `heap`); attribute containment is the ordered    *)
(* list of (name, id) children of a node, as in nn.Module._modules.        *)
(* Strings (dotted paths, state_dict keys) are sequences of tokens: a      *)
(* child name or the separator ".", so that "a.b" is <<"a", ".", "b">> and *)
(* the empty string is <<>>.                                               *)
(***************************************************************************)
EXTENDS Integers, Sequences, FiniteSets, TLC

VARIABLES
    adapter,     \* the class of self: "Vanilla4Compress", "ViTV4C", "BERT4Compress"
    heap,        \* all module objects alive, by identity
    model,       \* self.model: identity of the root of the input graph
    state_dict,  \* self.state_dict: None, or the reference set, given by the
                 \* path components its keys are without
    qmodel,      \* the model the last call returned (0: none, or the call raised)
    outcome      \* what the last call did: operation, arguments, result or error

vars == <<adapter, heap, model, state_dict, qmodel, outcome>>

(***************************************************************************)
(* Bounds of the model                                                     *)
(***************************************************************************)
\* the most children the root container of an input graph has
MaxChildren == 2

(***************************************************************************)
(* Strings                                                                 *)
(***************************************************************************)
\* <<f[1], ..., f[n]>> for a function f on 1..n
AsSeq(f) == <<>> \o f

Str(name) == IF name = "" THEN <<>> ELSE <<name>>

\* prefix + ('.' if prefix else '') + name
SubmodulePrefix(prefix, name) ==
    IF prefix = <<>> THEN Str(name) ELSE prefix \o <<".">> \o Str(name)

\* layer_name + ".xq", n + ".fc1.aq", layer_name + ".observer.lb", ...
Dot(path, name) == path \o <<".", name>>

RECURSIVE LastDot(_, _)
LastDot(s, i) ==
    IF i = 0 THEN 0 ELSE IF s[i] = "." THEN i ELSE LastDot(s, i - 1)

Name(tokens) == IF tokens = <<>> THEN "" ELSE tokens[1]

\* get_parent_name: target.rsplit(".", 1)
get_parent_name(target) ==
    LET d == LastDot(target, Len(target)) IN
    IF d = 0
        THEN <<<<>>, Name(target)>>
        ELSE <<SubSeq(target, 1, d - 1), Name(SubSeq(target, d + 1, Len(target)))>>

(***************************************************************************)
(* Registries                                                              *)
(***************************************************************************)
weight_quantizer == {"adaround", "minmax", "minmax_channel", "identity"}

input_quantizer ==
    {"minmax", "minmax_token", "minmax_channel", "lsq", "lsq_token", "identity"}

(***************************************************************************)
(* Errors                                                                  *)
(***************************************************************************)
NoErr == [type |-> "none", key |-> <<>>]
KeyError(k) == [type |-> "KeyError", key |-> k]
TypeError == [type |-> "TypeError", key |-> <<>>]
AttributeError(a) == [type |-> "AttributeError", key |-> <<a>>]
IndexError == [type |-> "IndexError", key |-> <<>>]

\* state_dict=None: no reference set was given
None == [given |-> FALSE, without |-> {}]

(***************************************************************************)
(* Quantizers                                                              *)
(***************************************************************************)
\* number of channels of a quantizer (and of its observer) as constructed
DefaultChannels == 1
\* rank of the scale / zero_point of a per-tensor quantizer
ScalarRank == 1
\* rank of the scale / zero_point a channel-wise quantizer registers: [C, 1]
ChannelRank == 2

NoQ == [kind |-> "absent", by |-> "nobody", num_channels |-> 0, obs_channels |-> 0,
        scale_rank |-> 0, zp_rank |-> 0, unsigned |-> FALSE, train_flag |-> FALSE,
        weights |-> 0, init |-> "none"]

\* isinstance(q.observer, BaseChannelWiseObserver)
ChannelWise(q) == q.kind = "minmax_channel"

\* q.register_qparams(): scale and zero_point are allocated anew for num_channels
register_qparams(q) ==
    LET r == IF ChannelWise(q) THEN ChannelRank ELSE ScalarRank IN
    [q EXCEPT !.scale_rank = r, !.zp_rank = r]

\* a quantizer as its constructor leaves it
Quantizer(kind, by, train_flag, unsigned, weights) ==
    register_qparams(
        [kind |-> kind, by |-> by, num_channels |-> DefaultChannels,
         obs_channels |-> DefaultChannels, scale_rank |-> 0, zp_rank |-> 0,
         unsigned |-> unsigned, train_flag |-> train_flag, weights |-> weights,
         init |-> "fresh"])

\* the wq / aq a quantized layer is constructed with: _QBase, the identity
DefaultQ == Quantizer("identity", "ctor", TRUE, TRUE, 0)

(***************************************************************************)
(* Module objects                                                          *)
(***************************************************************************)
\* bq: the block-level quantizers of a composite block, a list of
\* [slot |-> name of the attribute, q |-> the quantizer]
NoBlockQ == <<>>

Node(kind, inc, outc, weight) ==
    [kind |-> kind, children |-> <<>>, in_channels |-> inc, out_channels |-> outc,
     weight |-> weight, wq |-> NoQ, aq |-> NoQ, bq |-> NoBlockQ, config |-> FALSE]

\* getattr(m, slot) for a block-level quantizer: NoQ when there is none
BQ(node, slot) ==
    LET I == {i \in 1..Len(node.bq) : node.bq[i].slot = slot} IN
    IF I = {} THEN NoQ ELSE node.bq[CHOOSE i \in I : TRUE].q

\* setattr(m, slot, q) for a block-level quantizer
WithBQ(node, slot, q) ==
    LET I == {i \in 1..Len(node.bq) : node.bq[i].slot = slot} IN
    [node EXCEPT !.bq =
        IF I = {} THEN Append(@, [slot |-> slot, q |-> q])
        ELSE AsSeq([i \in 1..Len(@) |-> IF i \in I THEN [slot |-> slot, q |-> q] ELSE @[i]])]

\* getattr(m, name) for a child module: 0 when there is none
Child(h, m, name) ==
    LET c == h[m].children
        I == {i \in 1..Len(c) : c[i].name = name} IN
    IF I = {} THEN 0 ELSE c[CHOOSE i \in I : TRUE].id

\* nn.Module.__setattr__(m, name, value) for a module value: the entry of
\* _modules is replaced where it is, or appended
SetChild(h, m, name, value) ==
    LET c == h[m].children
        I == {i \in 1..Len(c) : c[i].name = name}
        c2 == IF I = {}
                  THEN Append(c, [name |-> name, id |-> value])
                  ELSE AsSeq([i \in 1..Len(c) |->
                                 IF i \in I THEN [name |-> name, id |-> value] ELSE c[i]]) IN
    [h EXCEPT ![m].children = c2]

Kids(h, m) == {h[m].children[i].id : i \in 1..Len(h[m].children)}

RECURSIVE ReachFrom(_, _, _)
ReachFrom(h, frontier, seen) ==
    IF frontier = {} THEN seen
    ELSE LET next == UNION {Kids(h, m) : m \in frontier} IN
         ReachFrom(h, next \ (seen \cup frontier), seen \cup frontier)

\* the objects of the graph rooted at `root`
Reach(h, root) == ReachFrom(h, {root}, {})

\* for the objects 1..n, how many objects of S are at or below each
RECURSIVE Ranks(_, _, _)
Ranks(S, n, acc) ==
    IF Len(acc) = n THEN acc
    ELSE LET i == Len(acc) + 1 IN
         Ranks(S, n, Append(acc, (IF i = 1 THEN 0 ELSE acc[i - 1]) + (IF i \in S THEN 1 ELSE 0)))

\* the objects of the set S of h, in order, each reference to an object x
\* redirected to base + (the place of x in S)
Moved(h, S, base) ==
    LET rank == Ranks(S, Len(h), <<>>)
        at == SelectSeq(AsSeq([i \in 1..Len(h) |-> i]), LAMBDA i : i \in S) IN
    AsSeq([k \in 1..Len(at) |->
              [h[at[k]] EXCEPT !.children =
                  AsSeq([i \in 1..Len(h[at[k]].children) |->
                            [name |-> h[at[k]].children[i].name,
                             id |-> base + rank[h[at[k]].children[i].id]]])]])

\* a copy that shares every object with its original
AliasCopy(h, root) == [h |-> h, root |-> root]

\* copy.deepcopy(root): every object reachable from root is copied once, so
\* the copy has the sharing of the original. Gives the heap with the copies
\* appended and the identity of the copy of root.
deepcopy(h, root) ==
    LET R == Reach(h, root) IN
    [h |-> h \o Moved(h, R, Len(h)), root |-> Len(h) + Ranks(R, Len(h), <<>>)[root]]

\* model.named_modules(remove_duplicate=True): preorder walk, every object
\* yielded once, under the first path that reaches it
RECURSIVE Walk(_, _, _, _)
Walk(h, stack, memo, out) ==
    IF stack = <<>> THEN out
    ELSE LET top == Head(stack)
             c == h[top.m].children
             kids == AsSeq([i \in 1..Len(c) |->
                               [n |-> SubmodulePrefix(top.n, c[i].name), m |-> c[i].id]]) IN
         IF top.m \in memo
             THEN Walk(h, Tail(stack), memo, out)
             ELSE Walk(h, kids \o Tail(stack), memo \cup {top.m}, Append(out, top))

named_modules(h, root) == Walk(h, <<[n |-> <<>>, m |-> root]>>, {}, <<>>)

\* dict(pairs): a key keeps the place of its first occurrence and the value
\* of its last one
RECURSIVE Dict(_, _)
Dict(pairs, d) ==
    IF pairs = <<>> THEN d
    ELSE LET p == Head(pairs)
             I == {i \in 1..Len(d) : d[i].n = p.n} IN
         Dict(Tail(pairs),
              IF I = {} THEN Append(d, p)
              ELSE AsSeq([i \in 1..Len(d) |-> IF i \in I THEN p ELSE d[i]]))

Modules(h, root) == Dict(named_modules(h, root), <<>>)

\* modules[key]: 0 when the key is absent
Lookup(modules, key) ==
    LET I == {i \in 1..Len(modules) : modules[i].n = key} IN
    IF I = {} THEN 0 ELSE modules[CHOOSE i \in I : TRUE].m

(***************************************************************************)
(* Execution state of a call: the heap, the error that aborted the call    *)
(* (NoErr while it runs), the state_dict keys looked up so far, the object *)
(* returned last, and in reload the model convert returned.                *)
(***************************************************************************)
Run(h) == [h |-> h, err |-> NoErr, looked |-> <<>>, ret |-> 0, converted |-> 0]

Raise(s, e) == IF s.err = NoErr THEN [s EXCEPT !.err = e] ELSE s

Ok(s) == s.err = NoErr

Return(s, v) == IF Ok(s) THEN [s EXCEPT !.ret = v] ELSE s

\* a new object
New(s, node) == IF Ok(s) THEN [s EXCEPT !.h = Append(s.h, node), !.ret = Len(s.h) + 1] ELSE s

\* getattr(m, name) must succeed
Need(s, m, name) ==
    IF Ok(s) /\ (m = 0 \/ Child(s.h, m, name) = 0) THEN Raise(s, AttributeError(name)) ELSE s

\* setattr(m, name, value)
Set(s, m, name, value) ==
    IF Ok(s) THEN [s EXCEPT !.h = SetChild(s.h, m, name, value)] ELSE s

\* setattr(modules[parent_name], name, value)
Splice(s, modules, target, value) ==
    LET pn == get_parent_name(target)
        parent == Lookup(modules, pn[1]) IN
    IF ~Ok(s) THEN s
    ELSE IF parent = 0 THEN Raise(s, KeyError(pn[1]))
    ELSE Set(s, parent, pn[2], value)

(***************************************************************************)
(* Layer converters                                                        *)
(***************************************************************************)
IsLinear(h, m) == m # 0 /\ h[m].kind \in {"Linear", "_QBaseLinear"}

\* _QBaseConv2d(...) / _QBaseLinear(...): the layer with its two slots
QLayer(kind, inc, outc, weight) ==
    [Node(kind, inc, outc, weight) EXCEPT !.wq = DefaultQ, !.aq = DefaultQ]

\* QAttention(...), QWindowAttention(...), QBertSelfAttention(config)
QShell(kind, dim, slots) ==
    [Node(kind, dim, dim, 0) EXCEPT
        !.bq = AsSeq([i \in 1..Len(slots) |-> [slot |-> slots[i], q |-> DefaultQ]])]

conv(s, layer) ==
    New(s, QLayer("_QBaseConv2d", s.h[layer].in_channels, s.h[layer].out_channels,
                  s.h[layer].weight))

linear(s, layer) ==
    IF ~Ok(s) THEN s
    ELSE IF ~IsLinear(s.h, layer) THEN Raise(s, AttributeError("in_features"))
    ELSE New(s, QLayer("_QBaseLinear", s.h[layer].in_channels,
                       s.h[layer].out_channels, s.h[layer].weight))

mlp(s, layer) ==
    LET s1 == linear(Need(s, layer, "fc1"), Child(s.h, layer, "fc1"))
        s2 == linear(Need(s1, layer, "fc2"), Child(s.h, layer, "fc2"))
        s3 == Set(s2, layer, "fc1", s1.ret)
        s4 == Set(s3, layer, "fc2", s2.ret) IN
    Return(s4, layer)

\* attn and wattn: a new shell with the converted qkv and proj installed
Shell2(s, layer, kind) ==
    LET s0 == Need(Need(s, layer, "qkv"), layer, "proj")
        qkv == Child(s.h, layer, "qkv")
        s1 == IF Ok(s0) /\ ~IsLinear(s.h, qkv)
                  THEN Raise(s0, AttributeError("in_features"))
                  ELSE New(s0, QShell(kind, IF Ok(s0) THEN s.h[qkv].in_channels ELSE 0,
                                      <<"xq", "qqkv", "qproj">>))
        s2 == linear(s1, qkv)
        s3 == linear(s2, Child(s.h, layer, "proj"))
        s4 == Set(s3, s1.ret, "qkv", s2.ret)
        s5 == Set(s4, s1.ret, "proj", s3.ret) IN
    Return(s5, s1.ret)

attn(s, layer) == Shell2(s, layer, "QAttention")

wattn(s, layer) == Shell2(s, layer, "QWindowAttention")

bert_attn(s, layer) ==
    LET s1 == New(s, QShell("QBertSelfAttention", 0, <<"xq", "qquery", "qkey", "qvalue">>))
        s2 == linear(Need(s1, layer, "query"), Child(s.h, layer, "query"))
        s3 == linear(Need(s2, layer, "key"), Child(s.h, layer, "key"))
        s4 == linear(Need(s3, layer, "value"), Child(s.h, layer, "value"))
        s5 == Set(s4, s1.ret, "query", s2.ret)
        s6 == Set(s5, s1.ret, "key", s3.ret)
        s7 == Set(s6, s1.ret, "value", s4.ret) IN
    Return(s7, s1.ret)

bert_output(s, layer) ==
    LET s1 == linear(Need(s, layer, "dense"), Child(s.h, layer, "dense"))
        s2 == Set(s1, layer, "dense", s1.ret) IN
    Return(s2, layer)

(***************************************************************************)
(* convert                                                                 *)
(***************************************************************************)
\* the body of the loop of convert for the entry (n, m) of the snapshot
Vanilla_convert_step(s, modules, n, m) ==
    IF s.h[m].kind = "Conv2d" THEN LET t == conv(s, m) IN Splice(t, modules, n, t.ret)
    ELSE IF s.h[m].kind = "Linear" THEN LET t == linear(s, m) IN Splice(t, modules, n, t.ret)
    ELSE s

ViT_convert_step(s, modules, n, m) ==
    IF s.h[m].kind = "Conv2d" THEN LET t == conv(s, m) IN Splice(t, modules, n, t.ret)
    ELSE IF s.h[m].kind = "Attention" THEN LET t == attn(s, m) IN Splice(t, modules, n, t.ret)
    ELSE IF s.h[m].kind = "WindowAttention"
        THEN LET t == wattn(s, m) IN Splice(t, modules, n, t.ret)
    ELSE IF s.h[m].kind = "Mlp" THEN LET t == mlp(s, m) IN Splice(t, modules, n, t.ret)
    ELSE s

BERT_convert_step(s, modules, n, m) ==
    IF s.h[m].kind = "BertSelfAttention"
        THEN LET t == bert_attn(s, m) IN Splice(t, modules, n, t.ret)
    ELSE IF s.h[m].kind = "BertSelfOutput"
        THEN LET t == bert_output(s, m) IN Splice(t, modules, n, t.ret)
    ELSE s

convert_step(self, s, modules, n, m) ==
    IF self = "Vanilla4Compress" THEN Vanilla_convert_step(s, modules, n, m)
    ELSE IF self = "ViTV4C" THEN ViT_convert_step(s, modules, n, m)
    ELSE BERT_convert_step(s, modules, n, m)

RECURSIVE convert_loop(_, _, _, _)
convert_loop(self, s, modules, i) ==
    IF i > Len(modules) \/ ~Ok(s) THEN s
    ELSE convert_loop(self, convert_step(self, s, modules, modules[i].n, modules[i].m),
                      modules, i + 1)

\* self.convert(): the state the call ends in; ret is the model returned
convert(self, h, root) ==
    LET c == deepcopy(h, root)
        modules == Modules(c.h, c.root) IN
    Return(convert_loop(self, Run(c.h), modules, 1), c.root)

(***************************************************************************)
(* Quantizer binder                                                        *)
(***************************************************************************)
\* weight_quantizer[wqtype](nbit=self.wbit, train_flag=..., [weights=...])
NewWQ(wqtype, train_flag, weight) ==
    Quantizer(wqtype, "binder", train_flag, TRUE, IF wqtype = "adaround" THEN weight ELSE 0)

\* input_quantizer[xqtype](nbit=self.abit, train_flag=..., unsigned=...)
NewXQ(xqtype, train_flag, unsigned) == Quantizer(xqtype, "binder", train_flag, unsigned, 0)

\* the registry lookups weight_quantizer[wqtype] and input_quantizer[xqtype]
NeedW(s, wqtype) ==
    IF Ok(s) /\ wqtype \notin weight_quantizer THEN Raise(s, KeyError(<<wqtype>>)) ELSE s

NeedX(s, xqtype) ==
    IF Ok(s) /\ xqtype \notin input_quantizer THEN Raise(s, KeyError(<<xqtype>>)) ELSE s

\* m.wq = q, m.aq = q, m.<slot> = q
SetWQ(s, m, q) == IF Ok(s) THEN [s EXCEPT !.h[m].wq = q] ELSE s
SetAQ(s, m, q) == IF Ok(s) THEN [s EXCEPT !.h[m].aq = q] ELSE s
SetBQ(s, m, slot, q) == IF Ok(s) THEN [s EXCEPT !.h[m] = WithBQ(@, slot, q)] ELSE s

\* q.num_channels = c; q.register_qparams();
\* q.observer.num_channels = c; q.observer.register_range()
Resize(q, c) == [register_qparams([q EXCEPT !.num_channels = c]) EXCEPT !.obs_channels = c]

\* tensor.unsqueeze_(dim) on a tensor of the given rank: -1 when dim is out of range
Unsqueeze(rank, dim) == IF rank < 0 \/ dim > rank THEN -1 ELSE rank + 1

\* a reshape that appends a single trailing dimension
UnsqueezeOnce(q) ==
    [q EXCEPT !.scale_rank = Unsqueeze(@, 2), !.zp_rank = Unsqueeze(@, 2)]

\* q.scale.unsqueeze_(2).unsqueeze_(3); q.zero_point.unsqueeze_(2).unsqueeze_(3)
Unsqueeze23(q) ==
    [q EXCEPT !.scale_rank = Unsqueeze(Unsqueeze(@, 2), 3),
              !.zp_rank = Unsqueeze(Unsqueeze(@, 2), 3)]

\* a quantizer slot must hold an object for its attributes to be assigned
HasQ(q) == q # NoQ

\* Vanilla4Compress.reshape_quantizer(layer, layer_name)
Vanilla_reshape_quantizer(s, layer) ==
    IF ~Ok(s) THEN s
    ELSE LET L == s.h[layer] IN
    IF L.kind \notin {"_QBaseLinear", "_QBaseConv2d"} THEN s
    ELSE IF ~HasQ(L.wq) THEN Raise(s, AttributeError("wq"))
    ELSE IF ~HasQ(L.aq) THEN Raise(s, AttributeError("aq"))
    ELSE LET wq == Resize(L.wq, L.out_channels)
             aq == Resize(L.aq, L.in_channels)
             wq2 == IF L.kind = "_QBaseConv2d" /\ ChannelWise(wq) THEN Unsqueeze23(wq) ELSE wq
             aq2 == IF L.kind = "_QBaseConv2d" /\ ChannelWise(aq) THEN Unsqueeze23(aq) ELSE aq IN
         IF wq2.scale_rank < 0 \/ aq2.scale_rank < 0 THEN Raise(s, IndexError)
         ELSE [s EXCEPT !.h[layer].wq = wq2, !.h[layer].aq = aq2]

\* key in self.state_dict: the reference set holds every dotted key none of
\* whose components is in state_dict.without
HasKey(self_state_dict, key) ==
    \A i \in 1..Len(key) : key[i] \notin self_state_dict.without

\* a lookup that answers a missing key with a default instead of raising
DefaultOnMiss(self_state_dict, s, key) ==
    IF Ok(s) THEN [s EXCEPT !.looked = Append(@, key)] ELSE s

\* self.state_dict[key]
Ref(self_state_dict, s, key) ==
    IF ~Ok(s) THEN s
    ELSE IF self_state_dict = None THEN Raise(s, TypeError)
    ELSE IF ~HasKey(self_state_dict, key)
        THEN Raise([s EXCEPT !.looked = Append(@, key)], KeyError(key))
    ELSE [s EXCEPT !.looked = Append(@, key)]

\* the _QBase branch of ViTV4C / BERT4Compress.reshape_quantizer: the four
\* lookups of the identity initialization of the quantizer named layer_name
IdentityLookups(sd, s, layer_name) ==
    Ref(sd, Ref(sd, Ref(sd, Ref(sd, s,
        Dot(layer_name, "scale")),
        Dot(layer_name, "zero_point")),
        layer_name \o <<".", "observer", ".", "lb">>),
        layer_name \o <<".", "observer", ".", "ub">>)

\* ... and the quantizer it returns: scale, zero_point, lb, ub shaped like
\* the reference tensors; num_channels is not assigned
IdentityInit(q) == [q EXCEPT !.init = "reference"]

\* the body of the loop of Vanilla4Compress.assign_quantizer for (n, m)
Vanilla_assign_step(s, modules, n, m, wqtype, xqtype) ==
    LET L == s.h[m] IN
    IF L.kind \notin {"_QBaseConv2d", "_QBaseLinear"} THEN s
    ELSE LET s1 == SetWQ(NeedW(s, wqtype), m, NewWQ(wqtype, FALSE, L.weight))
             s2 == IF L.kind = "_QBaseConv2d" /\ L.in_channels = 3 THEN s1
                   ELSE SetAQ(NeedX(s1, xqtype), m, NewXQ(xqtype, FALSE, TRUE))
             s3 == Vanilla_reshape_quantizer(s2, m) IN
         Splice(s3, modules, n, m)

\* the QAttention / QWindowAttention branch of ViTV4C.assign_quantizer
ViT_assign_attn(sd, s, modules, n, m, wqtype, xqtype) ==
    LET s0 == Need(Need(s, m, "qkv"), m, "proj")
        qkv == Child(s.h, m, "qkv")
        proj == Child(s.h, m, "proj")
        s1 == NeedW(s0, wqtype)
        s2 == IF Ok(s1) THEN SetWQ(s1, qkv, NewWQ(wqtype, FALSE, s.h[qkv].weight)) ELSE s1
        s3 == IF Ok(s2) THEN SetWQ(s2, proj, NewWQ(wqtype, FALSE, s.h[proj].weight)) ELSE s2
        s4 == NeedX(s3, xqtype)
        xq == IdentityInit(NewXQ(xqtype, FALSE, FALSE))
        s5 == SetBQ(IdentityLookups(sd, s4, Dot(n, "xq")), m, "xq", xq)
        s6 == SetBQ(IdentityLookups(sd, s5, Dot(n, "qqkv")), m, "qqkv", xq)
        s7 == SetBQ(IdentityLookups(sd, s6, Dot(n, "qproj")), m, "qproj", xq)
        s8 == Vanilla_reshape_quantizer(s7, qkv)
        s9 == Vanilla_reshape_quantizer(s8, proj)
        s10 == Set(Set(s9, m, "qkv", qkv), m, "proj", proj) IN
    Splice(s10, modules, n, m)

\* the Mlp branch of ViTV4C.assign_quantizer
ViT_assign_mlp(sd, s, modules, n, m, wqtype, xqtype) ==
    LET s0 == Need(Need(s, m, "fc1"), m, "fc2")
        fc1 == Child(s.h, m, "fc1")
        fc2 == Child(s.h, m, "fc2")
        s1 == NeedW(s0, wqtype)
        s2 == IF Ok(s1) THEN SetWQ(s1, fc1, NewWQ(wqtype, FALSE, s.h[fc1].weight)) ELSE s1
        s3 == IF Ok(s2) THEN SetWQ(s2, fc2, NewWQ(wqtype, FALSE, s.h[fc2].weight)) ELSE s2
        s4 == NeedX(s3, xqtype)
        aq == IdentityInit(NewXQ(xqtype, FALSE, FALSE))
        s5 == Vanilla_reshape_quantizer(s4, fc1)
        s6 == Vanilla_reshape_quantizer(s5, fc2)
        s7 == SetAQ(IdentityLookups(sd, s6, Dot(Dot(n, "fc1"), "aq")), fc1, aq)
        s8 == SetAQ(IdentityLookups(sd, s7, Dot(Dot(n, "fc2"), "aq")), fc2, aq)
        s9 == Set(Set(s8, m, "fc1", fc1), m, "fc2", fc2) IN
    Splice(s9, modules, n, m)

ViT_assign_step(sd, s, modules, n, m, wqtype, xqtype) ==
    IF s.h[m].kind \in {"QAttention", "QWindowAttention"}
        THEN ViT_assign_attn(sd, s, modules, n, m, wqtype, xqtype)
    ELSE IF s.h[m].kind = "Mlp" THEN ViT_assign_mlp(sd, s, modules, n, m, wqtype, xqtype)
    ELSE s

\* the QBertSelfAttention branch of BERT4Compress.assign_quantizer
BERT_assign_attn(sd, s, modules, n, m, wqtype, xqtype) ==
    LET s0 == Need(Need(Need(s, m, "query"), m, "key"), m, "value")
        q == Child(s.h, m, "query")
        k == Child(s.h, m, "key")
        v == Child(s.h, m, "value")
        s1 == NeedX(NeedW(s0, wqtype), xqtype)
        xq == IdentityInit(NewXQ(xqtype, TRUE, FALSE))
        s2 == IdentityLookups(sd, s1, Dot(Dot(n, "query"), "wq"))
        s3 == IdentityLookups(sd, s2, Dot(Dot(n, "key"), "wq"))
        s4 == IdentityLookups(sd, s3, Dot(Dot(n, "value"), "wq"))
        s5 == IdentityLookups(sd, s4, Dot(n, "xq"))
        s6 == IdentityLookups(sd, s5, Dot(n, "qquery"))
        s7 == IdentityLookups(sd, s6, Dot(n, "qkey"))
        s8 == IdentityLookups(sd, s7, Dot(n, "qvalue"))
        s9 == IF Ok(s8)
                 THEN SetWQ(SetWQ(SetWQ(s8,
                        q, IdentityInit(NewWQ(wqtype, TRUE, s.h[q].weight))),
                        k, IdentityInit(NewWQ(wqtype, TRUE, s.h[k].weight))),
                        v, IdentityInit(NewWQ(wqtype, TRUE, s.h[v].weight)))
                 ELSE s8
        s10 == SetBQ(SetBQ(SetBQ(SetBQ(s9, m, "xq", xq), m, "qquery", xq),
                           m, "qkey", xq), m, "qvalue", xq) IN
    Splice(s10, modules, n, m)

\* the BertSelfOutput branch of BERT4Compress.assign_quantizer
BERT_assign_output(sd, s, modules, n, m, wqtype, xqtype) ==
    LET s0 == Need(s, m, "dense")
        dense == Child(s.h, m, "dense")
        s1 == NeedX(NeedW(s0, wqtype), xqtype)
        s2 == IdentityLookups(sd, s1, Dot(Dot(n, "dense"), "aq"))
        s3 == IdentityLookups(sd, s2, Dot(Dot(n, "dense"), "wq"))
        s4 == IF Ok(s3)
                 THEN SetWQ(s3, dense, IdentityInit(NewWQ(wqtype, FALSE, s.h[dense].weight)))
                 ELSE s3
        s5 == SetAQ(s4, dense, IdentityInit(NewXQ(xqtype, TRUE, FALSE)))
        s6 == Set(s5, m, "dense", dense) IN
    Splice(s6, modules, n, m)

BERT_assign_step(sd, s, modules, n, m, wqtype, xqtype) ==
    IF s.h[m].kind = "QBertSelfAttention"
        THEN BERT_assign_attn(sd, s, modules, n, m, wqtype, xqtype)
    ELSE IF s.h[m].kind = "BertSelfOutput"
        THEN BERT_assign_output(sd, s, modules, n, m, wqtype, xqtype)
    ELSE s

assign_step(self, sd, s, modules, n, m, wqtype, xqtype) ==
    IF self = "Vanilla4Compress" THEN Vanilla_assign_step(s, modules, n, m, wqtype, xqtype)
    ELSE IF self = "ViTV4C" THEN ViT_assign_step(sd, s, modules, n, m, wqtype, xqtype)
    ELSE BERT_assign_step(sd, s, modules, n, m, wqtype, xqtype)

RECURSIVE assign_loop(_, _, _, _, _, _, _)
assign_loop(self, sd, s, modules, i, wqtype, xqtype) ==
    IF i > Len(modules) \/ ~Ok(s) THEN s
    ELSE assign_loop(self, sd,
             assign_step(self, sd, s, modules, modules[i].n, modules[i].m, wqtype, xqtype),
             modules, i + 1, wqtype, xqtype)

\* self.assign_quantizer(model, wqtype, xqtype)
assign_quantizer(self, sd, h, root, wqtype, xqtype) ==
    LET c == deepcopy(h, root)
        modules == Modules(c.h, c.root) IN
    Return(assign_loop(self, sd, Run(c.h), modules, 1, wqtype, xqtype), c.root)

\* self.reload(wqtype, xqtype)
reload(self, sd, h, root, wqtype, xqtype) ==
    LET q == convert(self, h, root) IN
    IF Ok(q)
        THEN [assign_quantizer(self, sd, q.h, q.ret, wqtype, xqtype) EXCEPT !.converted = q.ret]
        ELSE q

(***************************************************************************)
(* Input graphs                                                            *)
(***************************************************************************)
Leaf(h, kind, inc, outc) == Append(h, Node(kind, inc, outc, Len(h) + 1))

\* a parent of the given kind over the objects ids, named names
Parent(h, kind, names, ids) ==
    Append(h, [Node(kind, 0, 0, 0) EXCEPT
                  !.children =
                      AsSeq([i \in 1..Len(names) |-> [name |-> names[i], id |-> ids[i]]])])

\* the heap with one block of type t added; the block is the last object
Block(h, t) ==
    LET n == Len(h) IN
    CASE t = "ConvRGB" -> Leaf(h, "Conv2d", 3, 64)
      [] t = "Conv" -> Leaf(h, "Conv2d", 4, 2)
      [] t = "Linear" -> Leaf(h, "Linear", 4, 2)
      [] t \in {"Attention", "WindowAttention"} ->
            Parent(Leaf(Leaf(h, "Linear", 4, 12), "Linear", 4, 4),
                   t, <<"qkv", "proj">>, <<n + 1, n + 2>>)
      [] t = "Mlp" ->
            Parent(Leaf(Leaf(h, "Linear", 4, 8), "Linear", 8, 4),
                   t, <<"fc1", "fc2">>, <<n + 1, n + 2>>)
      [] t = "BertSelfAttention" ->
            Parent(Leaf(Leaf(Leaf(h, "Linear", 4, 4), "Linear", 4, 4), "Linear", 4, 4),
                   t, <<"query", "key", "value">>, <<n + 1, n + 2, n + 3>>)
      [] t = "BertSelfOutput" ->
            Parent(Leaf(h, "Linear", 4, 4), t, <<"dense">>, <<n + 1>>)

BlockTypes(self) ==
    IF self = "Vanilla4Compress" THEN {"ConvRGB", "Conv", "Linear"}
    ELSE IF self = "ViTV4C" THEN {"Conv", "Attention", "WindowAttention", "Mlp"}
    ELSE {"BertSelfAttention", "BertSelfOutput", "Linear"}

ChildNames == <<"a", "b", "c", "d">>

RECURSIVE Blocks(_, _, _)
Blocks(h, ts, ids) ==
    IF ts = <<>> THEN [h |-> h, ids |-> ids]
    ELSE LET h2 == Block(h, Head(ts)) IN Blocks(h2, Tail(ts), Append(ids, Len(h2)))

\* a container whose children a, b, ... are blocks of the types ts
Flat(ts) ==
    LET b == Blocks(<<>>, ts, <<>>) IN
    Parent(b.h, "Module", SubSeq(ChildNames, 1, Len(ts)), b.ids)

\* a container that holds one and the same block under the names a and b
Shared(t) ==
    LET h == Block(<<>>, t) IN Parent(h, "Module", <<"a", "b">>, <<Len(h), Len(h)>>)

\* a container in a container: the block's path is a.b
Nested(t) ==
    LET h == Block(<<>>, t)
        h2 == Parent(h, "Module", <<"b">>, <<Len(h)>>) IN
    Parent(h2, "Module", <<"a">>, <<Len(h2)>>)

\* the input graphs of an adapter; the root is the last object
Graphs(self) ==
    {Block(<<>>, t) : t \in BlockTypes(self)}
    \cup UNION {{Flat(ts) : ts \in [1..k -> BlockTypes(self)]} : k \in 1..MaxChildren}
    \cup {Shared(t) : t \in BlockTypes(self)}
    \cup {Nested(t) : t \in BlockTypes(self)}

\* BERT4Compress.__init__ asserts hasattr(model, "config")
WithConfig(h) == [h EXCEPT ![Len(h)].config = TRUE]

StateDicts(self) ==
    IF self = "Vanilla4Compress" THEN {None}
    ELSE {None} \cup {[given |-> TRUE, without |-> w] :
                         w \in {{}, {"zero_point"}, {"qproj", "aq", "qkey"}}}

\* the (wqtype, xqtype) a call is made with: per-tensor, channel-wise and
\* data-dependent kinds, and kinds that are in no registry
Kinds ==
    {<<"minmax", "lsq">>, <<"minmax_channel", "minmax_channel">>, <<"adaround", "lsq">>,
     <<"nearest", "lsq">>, <<"minmax", "percentile">>}

NoCall == [op |-> "none", arg |-> 0, wqtype |-> "", xqtype |-> "", err |-> NoErr,
           ret |-> 0, looked |-> <<>>, converted |-> 0]

(***************************************************************************)
(* Objects no caller can reach any more are collected when a call starts:  *)
(* what stays is the graph of self.model and that of the model passed in.  *)
(***************************************************************************)
Live(h, roots) == UNION {Reach(h, r) : r \in roots \ {0}}

\* the heap without the objects that are not live, and where each object is
\* in it (the objects of self.model stay where they are)
Collect(h, roots) ==
    LET L == Live(h, roots) IN
    [h |-> Moved(h, L, 0), to |-> <<0>> \o Ranks(L, Len(h), <<>>)]

(***************************************************************************)
(* The program: an adapter is constructed over a model, then convert,      *)
(* assign_quantizer and reload are called in any order.                    *)
(***************************************************************************)
Init ==
    /\ adapter \in {"Vanilla4Compress", "ViTV4C", "BERT4Compress"}
    /\ heap \in {IF adapter = "BERT4Compress" THEN WithConfig(g) ELSE g : g \in Graphs(adapter)}
    /\ model = Len(heap)
    /\ state_dict \in StateDicts(adapter)
    /\ qmodel = 0
    /\ outcome = NoCall

Called(op, arg, wqtype, xqtype, r) ==
    /\ heap' = r.h
    /\ qmodel' = IF Ok(r) THEN r.ret ELSE 0
    /\ outcome' = [op |-> op, arg |-> arg, wqtype |-> wqtype, xqtype |-> xqtype,
                   err |-> r.err, ret |-> IF Ok(r) THEN r.ret ELSE 0,
                   looked |-> r.looked, converted |-> r.converted]
    /\ UNCHANGED <<adapter, model, state_dict>>

Convert ==
    \E c \in {Collect(heap, {model})} :
    \E r \in {convert(adapter, c.h, model)} :
        Called("convert", model, "", "", r)

AssignQuantizer(m, kinds) ==
    /\ m # 0
    /\ \E c \in {Collect(heap, {model, m})} :
       \E r \in {assign_quantizer(adapter, state_dict, c.h, c.to[m + 1], kinds[1], kinds[2])} :
           Called("assign_quantizer", c.to[m + 1], kinds[1], kinds[2], r)

Reload(kinds) ==
    \E c \in {Collect(heap, {model})} :
    \E r \in {reload(adapter, state_dict, c.h, model, kinds[1], kinds[2])} :
        Called("reload", model, kinds[1], kinds[2], r)

Next ==
    \/ Convert
    \/ \E m \in {model, qmodel}, kinds \in Kinds : AssignQuantizer(m, kinds)
    \/ \E kinds \in Kinds : Reload(kinds)

Spec == Init /\ [][Next]_vars

(***************************************************************************)
(* Vocabulary of the properties                                            *)
(***************************************************************************)
Raised == outcome.err # NoErr
Returned == outcome.op # "none" /\ ~Raised
Bound == outcome.op \in {"assign_quantizer", "reload"}

\* the model the binder of the last call was given
BoundInput == IF outcome.op = "reload" THEN outcome.converted ELSE outcome.arg

\* the object at the end of the attribute path names, from x: 0 when there is none
RECURSIVE Resolve(_, _, _)
Resolve(h, x, names) ==
    IF x = 0 \/ names = <<>> THEN x
    ELSE Resolve(h, Child(h, x, Head(names)), Tail(names))

\* the attribute paths of an acyclic graph
RECURSIVE Paths(_, _)
Paths(h, x) ==
    {<<>>} \cup UNION {{<<h[x].children[i].name>> \o q : q \in Paths(h, h[x].children[i].id)} :
                          i \in 1..Len(h[x].children)}

ChildNamesOf(h, x) == [i \in 1..Len(h[x].children) |-> h[x].children[i].name]

Roles(self) ==
    IF self = "Vanilla4Compress" THEN {"Conv2d", "Linear"}
    ELSE IF self = "ViTV4C" THEN {"Conv2d", "Attention", "WindowAttention", "Mlp"}
    ELSE {"BertSelfAttention", "BertSelfOutput"}

QLayerKinds == {"_QBaseConv2d", "_QBaseLinear"}
QBlockKinds == {"QAttention", "QWindowAttention", "QBertSelfAttention"}

KidsAreQLinear(h, y, names) ==
    \A n \in names : Child(h, y, n) # 0 /\ h[Child(h, y, n)].kind = "_QBaseLinear"

\* y is the quantized counterpart of a node of kind k
Counterpart(h, y, k) ==
    /\ y # 0
    /\ CASE k = "Conv2d" -> h[y].kind = "_QBaseConv2d"
         [] k = "Linear" -> h[y].kind = "_QBaseLinear"
         [] k = "Attention" -> h[y].kind = "QAttention" /\ KidsAreQLinear(h, y, {"qkv", "proj"})
         [] k = "WindowAttention" ->
                h[y].kind = "QWindowAttention" /\ KidsAreQLinear(h, y, {"qkv", "proj"})
         [] k = "Mlp" -> h[y].kind = "Mlp" /\ KidsAreQLinear(h, y, {"fc1", "fc2"})
         [] k = "BertSelfAttention" ->
                h[y].kind = "QBertSelfAttention"
                /\ KidsAreQLinear(h, y, {"query", "key", "value"})
         [] k = "BertSelfOutput" ->
                h[y].kind = "BertSelfOutput" /\ KidsAreQLinear(h, y, {"dense"})
         [] OTHER -> FALSE

\* the path names lies inside a block the adapter recognizes
InsideRole(h, root, names) ==
    \E k \in 0..(Len(names) - 1) :
        h[Resolve(h, root, SubSeq(names, 1, k))].kind \in Roles(adapter)

\* the quantized layers and the composite blocks of the graph at root
QLayers(h, root) == {x \in Reach(h, root) : h[x].kind \in QLayerKinds}
QBlocks(h, root) == {x \in Reach(h, root) : h[x].kind \in QBlockKinds}

IsRGBStem(node) == node.kind = "_QBaseConv2d" /\ node.in_channels = 3

\* the quantizer was put in its slot by the binder
Attached(q) == q.by = "binder"

\* the kinds of module a binder has a branch for
BoundKinds == QLayerKinds \cup QBlockKinds \cup {"Mlp", "BertSelfOutput"}

QConvs(h, root) == {x \in QLayers(h, root) : h[x].kind = "_QBaseConv2d"}

\* the model handed to the last call already carried quantizers of the binder
AlreadyBound(h, root) == \E x \in QLayers(h, root) : Attached(h[x].wq)

(***************************************************************************)
(* Properties                                                              *)
(***************************************************************************)

\* C1 (Isolation): whatever call is made, convert, assign_quantizer or
\* reload, returning or raising, every object reachable from the model it
\* is given (and from self.model) is afterwards what it was before: same
\* children under the same names, same kind, same parameters, same
\* quantizer slots. The in-place converters only touch the copy.
C1_Isolation ==
    [][\A m \in {model, qmodel} \ {0} :
          LET c == Collect(heap, {model, m}) IN
          c.to[m + 1] = outcome'.arg =>
              \A i \in 1..Len(c.h) : heap'[i] = c.h[i]]_vars

\* C1 witness: ViTV4C.convert returned a graph whose Mlp has a quantized
\* fc1 (written in place by mlp) while the Mlp of self.model keeps its Linear
C1_MlpConvertedOnCopy ==
    /\ adapter = "ViTV4C" /\ outcome.op = "convert" /\ Returned
    /\ \E p \in Paths(heap, model) :
          LET x == Resolve(heap, model, p)
              y == Resolve(heap, qmodel, p) IN
          /\ heap[x].kind = "Mlp" /\ y # 0 /\ y # x
          /\ heap[Child(heap, x, "fc1")].kind = "Linear"
          /\ heap[Child(heap, y, "fc1")].kind = "_QBaseLinear"

\* C2 (Rewriter contract): in the graph convert() returns, every non-root
\* node of a role the adapter recognizes is replaced by its quantized
\* counterpart under the same parent and name, and every other node keeps
\* its path, its kind and its children.
C2_RewriterContract ==
    (outcome.op = "convert" /\ Returned) =>
        \A p \in Paths(heap, model) \ {<<>>} :
            LET x == Resolve(heap, model, p)
                y == Resolve(heap, qmodel, p) IN
            IF InsideRole(heap, model, p) THEN TRUE
            ELSE IF heap[x].kind \in Roles(adapter) THEN Counterpart(heap, y, heap[x].kind)
            ELSE /\ y # 0
                 /\ heap[y].kind = heap[x].kind
                 /\ ChildNamesOf(heap, y) = ChildNamesOf(heap, x)

\* C3 (Binder coverage): after reload(wqtype, xqtype) every quantized layer
\* of the returned graph has a weight quantizer of kind wqtype made by the
\* binder and, unless it is a convolution with in_channels = 3, an
\* activation quantizer of kind xqtype; every composite block has its
\* block-level quantizers of kind xqtype.
C3_BinderCoverage ==
    (outcome.op = "reload" /\ Returned) =>
        /\ \A x \in QLayers(heap, qmodel) :
              /\ Attached(heap[x].wq) /\ heap[x].wq.kind = outcome.wqtype
              /\ ~IsRGBStem(heap[x]) =>
                    Attached(heap[x].aq) /\ heap[x].aq.kind = outcome.xqtype
        /\ \A x \in QBlocks(heap, qmodel) : \A i \in 1..Len(heap[x].bq) :
              Attached(heap[x].bq[i].q) /\ heap[x].bq[i].q.kind = outcome.xqtype

\* C4 (Shape invariant): in the graph assign_quantizer returns, the weight
\* quantizer the binder left in a layer's wq slot and its observer have
\* num_channels = out_channels, and the activation quantizer it left in the
\* aq slot and its observer have num_channels = in_channels.
C4_ShapeInvariant ==
    (Bound /\ Returned) =>
        \A x \in QLayers(heap, qmodel) :
            /\ Attached(heap[x].wq) =>
                  /\ heap[x].wq.num_channels = heap[x].out_channels
                  /\ heap[x].wq.obs_channels = heap[x].out_channels
            /\ Attached(heap[x].aq) =>
                  /\ heap[x].aq.num_channels = heap[x].in_channels
                  /\ heap[x].aq.obs_channels = heap[x].in_channels

\* C5 (RGB-stem exemption): assign_quantizer completes, whatever xqtype is,
\* on a model in which the layers the binder handles are convolutions with
\* in_channels = 3; in the graph it returns such a convolution has no activation
\* quantizer of the binder and a weight quantizer of the binder with
\* num_channels = out_channels, and every other quantized convolution has
\* an activation quantizer of kind xqtype.
C5_RGBStemExemption ==
    Bound =>
        /\ (/\ outcome.wqtype \in weight_quantizer
            /\ QConvs(heap, BoundInput) # {}
            /\ \A x \in Reach(heap, BoundInput) :
                  heap[x].kind \in BoundKinds => IsRGBStem(heap[x])) => Returned
        /\ Returned =>
              \A x \in QConvs(heap, qmodel) :
                  IF heap[x].in_channels = 3
                      THEN /\ ~Attached(heap[x].aq)
                           /\ Attached(heap[x].wq)
                           /\ heap[x].wq.kind = outcome.wqtype
                           /\ heap[x].wq.num_channels = heap[x].out_channels
                      ELSE Attached(heap[x].aq) /\ heap[x].aq.kind = outcome.xqtype

\* the rank of scale and zero_point of the channel-wise quantizers the
\* binder left on the convolutions of the graph it returned is 4
Rank4 ==
    (Bound /\ Returned) =>
        \A x \in QConvs(heap, qmodel) :
            /\ (Attached(heap[x].wq) /\ ChannelWise(heap[x].wq)) =>
                  heap[x].wq.scale_rank = 4 /\ heap[x].wq.zp_rank = 4
            /\ (Attached(heap[x].aq) /\ ChannelWise(heap[x].aq)) =>
                  heap[x].aq.scale_rank = 4 /\ heap[x].aq.zp_rank = 4

C7_UnknownQuantizerKind ==
    (Bound /\ (outcome.wqtype \notin weight_quantizer
               \/ outcome.xqtype \notin input_quantizer)) =>
        (Raised /\ qmodel = 0)

\* C8 (ReferenceLookupMiss): in ViTV4C and BERT4Compress, with a reference
\* set given, a lookup of the identity initialization whose key the set
\* lacks is the last lookup of the call: the call raises the KeyError of
\* that key and returns no model; a bind that returns found every key.
C8_ReferenceLookupMiss ==
    (adapter # "Vanilla4Compress" /\ state_dict.given /\ Bound) =>
        /\ \A i \in 1..Len(outcome.looked) :
              ~HasKey(state_dict, outcome.looked[i]) =>
                  /\ i = Len(outcome.looked)
                  /\ outcome.err = KeyError(outcome.looked[i])
                  /\ outcome.ret = 0 /\ qmodel = 0
        /\ Returned =>
              \A i \in 1..Len(outcome.looked) : HasKey(state_dict, outcome.looked[i])

\* C8 witness (scenario C): BertSelfOutput "a" bound with wqtype adaround
\* and a reference set without a.dense.aq.scale: KeyError of that key
C8_ScenarioC ==
    /\ adapter = "BERT4Compress" /\ outcome.op = "reload"
    /\ outcome.wqtype = "adaround" /\ state_dict.given
    /\ outcome.looked # <<>>
    /\ outcome.err = KeyError(<<"a", ".", "dense", ".", "aq", ".", "scale">>)
    /\ qmodel = 0

\* C9 (Root edge case): when the root of the model is of a recognized role,
\* the root convert() returns is a copy of it with the same kind and the
\* same children: nothing is added under an empty name.
C9_RootSkipped ==
    (outcome.op = "convert" /\ Returned /\ heap[model].kind \in Roles(adapter)) =>
        /\ heap[qmodel].kind = heap[model].kind
        /\ ChildNamesOf(heap, qmodel) = ChildNamesOf(heap, model)

\* C10 (Shared-node consistency): when a convertible layer is reachable
\* under several paths, all these paths of the graph convert() returns lead
\* to one and the same quantized replacement.
C10_SharedConsistency ==
    (outcome.op = "convert" /\ Returned) =>
        \A p1, p2 \in Paths(heap, model) \ {<<>>} :
            LET x == Resolve(heap, model, p1) IN
            (x = Resolve(heap, model, p2) /\ heap[x].kind \in Roles(adapter)) =>
                /\ Resolve(heap, qmodel, p1) = Resolve(heap, qmodel, p2)
                /\ Counterpart(heap, Resolve(heap, qmodel, p1), heap[x].kind)

====
